---- MODULE Spec2Model ----
(***************************************************************************)
(* Model of cologauge: quality control and fusion of three co-located rain *)
(* gauges (gauge_proc_tools.py) and the validity plot scan                 *)
(* (gauge_vis_tools.py).                                                   *)
(*                                                                         *)
(* Numbers.  A float is modelled as a record [nan, n, d]: NaN, or the      *)
(* exact rational n/d with d >= 0 (d = 0 and n # 0 is +/- infinity, the    *)
(* result of dividing a non-zero number by zero).  One model unit is       *)
(* 1/Quantum of the 10th decimal place, so that round(10) is rounding to   *)
(* the nearest multiple of Quantum.  Arithmetic is exact.                  *)
(***************************************************************************)
EXTENDS Integers, Sequences, FiniteSets

\* model units per 1e-10 (the resolution of DataFrame.round(10))
Quantum == 4

\* largest reading of the input frames, in multiples of 1e-10
MaxR == 10

\* the correlations tried are the multiples of 1/CorrSteps
CorrSteps == 4

\* longest ValidityMask drawn
MaskLen == 3

\* minutes of raw data handed to combine_gauges
SeriesLen == 122

-----------------------------------------------------------------------------
(* floats *)

NaN == [nan |-> TRUE, n |-> 0, d |-> 1]

Num(n, d) == IF d = 0 /\ n = 0 THEN NaN
             ELSE IF d < 0 THEN [nan |-> FALSE, n |-> -n, d |-> -d]
             ELSE [nan |-> FALSE, n |-> n, d |-> d]

IsNaN(x) == x.nan

\* x > y, x >= y, x < y, x == y of numpy: False as soon as one side is NaN
Gt(x, y) == ~x.nan /\ ~y.nan /\ x.n * y.d > y.n * x.d

Ge(x, y) == ~x.nan /\ ~y.nan /\ x.n * y.d >= y.n * x.d

Lt(x, y) == ~x.nan /\ ~y.nan /\ x.n * y.d < y.n * x.d

Eq(x, y) == ~x.nan /\ ~y.nan /\ x.n * y.d = y.n * x.d

Add(x, y) == IF x.nan \/ y.nan THEN NaN
             ELSE IF x.d = y.d THEN Num(x.n + y.n, x.d)
             ELSE Num(x.n * y.d + y.n * x.d, x.d * y.d)

Sub(x, y) == IF x.nan \/ y.nan THEN NaN
             ELSE IF x.d = y.d /\ x.d # 0 THEN Num(x.n - y.n, x.d)
             ELSE Num(x.n * y.d - y.n * x.d, x.d * y.d)

Mul(x, y) == IF x.nan \/ y.nan THEN NaN ELSE Num(x.n * y.n, x.d * y.d)

Div(x, y) == IF x.nan \/ y.nan THEN NaN ELSE Num(x.n * y.d, x.d * y.n)

\* numpy.round(x, 10): the nearest multiple of 1e-10, a tie to the even one
Round10(x) ==
    IF x.nan \/ x.d = 0 THEN x
    ELSE LET q == Quantum * x.d
             k == x.n \div q
             r == x.n - k * q
             up == \/ 2 * r > q
                   \/ 2 * r = q /\ k % 2 = 1
         IN  Num((IF up THEN k + 1 ELSE k) * Quantum, 1)

-----------------------------------------------------------------------------
(* frames: a DataFrame is a function column -> (1..len -> float) *)

gauge_ids == {"1", "2", "3"}

pairs == [g \in gauge_ids \cup {"all"} |->
            CASE g = "1" -> <<"1-2", "1-3">>
              [] g = "2" -> <<"1-2", "2-3">>
              [] g = "3" -> <<"1-3", "2-3">>
              [] OTHER   -> <<"1-2", "1-3", "2-3">>]

PairKeys == {pairs["all"][i] : i \in 1..3}

\* pair_str.split("-")
split(pair_str) == CASE pair_str = "1-2" -> <<"1", "2">>
                     [] pair_str = "1-3" -> <<"1", "3">>
                     [] pair_str = "2-3" -> <<"2", "3">>

Index(df) == DOMAIN df["1"]

\* f itself, tabulated: the comparison makes TLC compute every entry once and
\* keep the table, instead of recomputing an entry each time it is read
Table(f) == CHOOSE g \in {f} : g = f

\* DataFrame.round(10)
round(df) ==
    Table([c \in DOMAIN df |-> [t \in DOMAIN df[c] |-> Round10(df[c][t])]])

validity_from_zeros_or_as_and(df_three_gauges, min_R) ==
    LET rounded == round(df_three_gauges)
    IN  [gauge_id \in gauge_ids |->
          [t \in Index(rounded) |->
             LET other_gauge_ids == gauge_ids \ {gauge_id}
                 df_not_valid ==
                    /\ Eq(rounded[gauge_id][t], Num(0, 1))
                    /\ \A o \in other_gauge_ids : Gt(rounded[o][t], min_R)
             IN  ~df_not_valid]]

\* validity_from_zeros with a NaN reading taken as a zero reading
validity_from_zeros_nan_as_zero(df_three_gauges, min_R) ==
    LET rounded == round(df_three_gauges)
    IN  [g \in gauge_ids |->
          [t \in Index(rounded) |->
             LET other_gauge_ids == gauge_ids \ {g}
                 df_not_valid ==
                    /\ IsNaN(rounded[g][t]) \/ Eq(rounded[g][t], Num(0, 1))
                    /\ \E o \in other_gauge_ids : Gt(rounded[o][t], min_R)
             IN  ~df_not_valid]]

validity_from_zeros(df_three_gauges, min_R) ==
    LET rounded == round(df_three_gauges)
    IN  [gauge_id \in gauge_ids |->
          [t \in Index(rounded) |->
             LET other_gauge_ids == gauge_ids \ {gauge_id}
                 df_not_valid ==
                    /\ Eq(rounded[gauge_id][t], Num(0, 1))
                    /\ \E o \in other_gauge_ids : Gt(rounded[o][t], min_R)
             IN  ~df_not_valid]]

get_gauge_diff(df_three_gauges) ==
    LET rounded == round(df_three_gauges)
    IN  Table([pair_str \in PairKeys |->
          [t \in Index(rounded) |->
             Sub(rounded[split(pair_str)[1]][t], rounded[split(pair_str)[2]][t])]])

get_gauge_relative_diff_unmasked(df_three_gauges, min_R) ==
    LET df_diff == get_gauge_diff(df_three_gauges)
    IN  Table([pair_str \in PairKeys |->
          [t \in Index(df_three_gauges) |->
             LET v1 == df_three_gauges[split(pair_str)[1]][t]
                 v2 == df_three_gauges[split(pair_str)[2]][t]
             IN  Div(df_diff[pair_str][t], Div(Add(v1, v2), Num(2, 1)))]])

get_gauge_relative_diff(df_three_gauges, min_R) ==
    LET df_diff == get_gauge_diff(df_three_gauges)
    IN  Table([pair_str \in PairKeys |->
          [t \in Index(df_three_gauges) |->
             LET v1 == df_three_gauges[split(pair_str)[1]][t]
                 v2 == df_three_gauges[split(pair_str)[2]][t]
             IN  IF Lt(v1, min_R) \/ Lt(v2, min_R) THEN NaN
                 ELSE Div(df_diff[pair_str][t], Div(Add(v1, v2), Num(2, 1)))]])

sign_swapped(pair_str, gauge_id) == IF split(pair_str)[1] = gauge_id THEN 1 ELSE -1

\* sign_1, sign_2: -1 when the gauge is the first id of the pair string
sign(pair_str, gauge_id) == IF split(pair_str)[1] = gauge_id THEN -1 ELSE 1

validity_from_relative_diff_both(df_three_gauges, max_allowed_relative_diff, min_R) ==
    LET df_relative_diff_three_gauges ==
            get_gauge_relative_diff(df_three_gauges, min_R)
    IN  [gauge_id \in gauge_ids |->
          [t \in Index(df_three_gauges) |->
             LET pair_1 == pairs[gauge_id][1]
                 pair_2 == pairs[gauge_id][2]
                 df_greater_min_R ==
                    \E c \in gauge_ids : Gt(df_three_gauges[c][t], min_R)
                 over(p) == Gt(Mul(df_relative_diff_three_gauges[p][t],
                                   Num(sign(p, gauge_id), 1)),
                               max_allowed_relative_diff)
                 df_not_valid == df_greater_min_R /\ (over(pair_1) /\ over(pair_2))
             IN  ~df_not_valid]]

validity_from_relative_diff(df_three_gauges, max_allowed_relative_diff, min_R) ==
    LET df_relative_diff_three_gauges ==
            get_gauge_relative_diff(df_three_gauges, min_R)
    IN  [gauge_id \in gauge_ids |->
          [t \in Index(df_three_gauges) |->
             LET pair_1 == pairs[gauge_id][1]
                 pair_2 == pairs[gauge_id][2]
                 df_greater_min_R ==
                    \E c \in gauge_ids : Gt(df_three_gauges[c][t], min_R)
                 over(p) == Gt(Mul(df_relative_diff_three_gauges[p][t],
                                   Num(sign(p, gauge_id), 1)),
                               max_allowed_relative_diff)
                 df_not_valid == df_greater_min_R /\ (over(pair_1) \/ over(pair_2))
             IN  ~df_not_valid]]

\* Series.rolling(window, center=True).mean(): the mean of the window samples
\* from i - window/2 on, NaN where the window leaves the series or holds a NaN
\* (a NaN sample makes the sum NaN)
RECURSIVE SumFrom(_, _, _)
SumFrom(series, lo, hi) ==
    IF lo > hi THEN Num(0, 1)
    ELSE IF lo = hi THEN series[lo]
    ELSE LET mid == (lo + hi) \div 2
         IN  Add(SumFrom(series, lo, mid), SumFrom(series, mid + 1, hi))

rolling_mean(series, window) ==
    [i \in DOMAIN series |->
       LET lo == i - window \div 2
           hi == lo + window - 1
       IN  IF lo < 1 \/ hi > Len(series)
           THEN NaN
           ELSE Div(SumFrom(series, lo, hi), Num(window, 1))]

rolling(df, window) == Table([c \in DOMAIN df |-> rolling_mean(df[c], window)])

\* the window of an average over so many hours of minutely data
MinutesPerHour == 60

\* df[mask].mean(axis=1): per timestamp the mean of the values that are
\* selected by the mask and are not NaN, NaN when there are none
masked_mean(df, mask) ==
    [t \in Index(df) |->
       LET kept == {c \in DOMAIN df : mask[c][t] /\ ~IsNaN(df[c][t])}
           total == Add(Add(IF "1" \in kept THEN df["1"][t] ELSE Num(0, 1),
                            IF "2" \in kept THEN df["2"][t] ELSE Num(0, 1)),
                        IF "3" \in kept THEN df["3"][t] ELSE Num(0, 1))
       IN  Div(total, Num(Cardinality(kept), 1))]

\* combine_gauges with the two averaging windows exchanged
combine_gauges_windows_swapped(df_three_gauges_R_1_min, hours_to_average_for_diff, max_allowed_relative_diff, min_R, hours_to_average_for_zeros) ==
    LET df_gauge_valid_from_diff ==
            validity_from_relative_diff(
                rolling(df_three_gauges_R_1_min,
                        MinutesPerHour * hours_to_average_for_zeros),
                max_allowed_relative_diff,
                Div(min_R, Num(hours_to_average_for_diff, 1)))
        df_gauge_valid_from_zeros ==
            validity_from_zeros(
                rolling(df_three_gauges_R_1_min,
                        MinutesPerHour * hours_to_average_for_diff),
                Div(min_R, Num(hours_to_average_for_zeros, 1)))
        df_valid_combo ==
            [g \in gauge_ids |-> [t \in Index(df_three_gauges_R_1_min) |->
                df_gauge_valid_from_zeros[g][t] /\ df_gauge_valid_from_diff[g][t]]]
    IN  [df_gauge_valid_from_diff |-> df_gauge_valid_from_diff,
         df_gauge_valid_from_zeros |-> df_gauge_valid_from_zeros,
         df_valid_combo |-> df_valid_combo,
         ts_R_1_min_combo |-> masked_mean(df_three_gauges_R_1_min, df_valid_combo)]

\* combine_gauges averaging the smoothed values instead of the raw ones
combine_gauges_mean_of_smoothed(df_three_gauges_R_1_min, hours_to_average_for_diff, max_allowed_relative_diff, min_R, hours_to_average_for_zeros) ==
    LET df_gauge_valid_from_diff ==
            validity_from_relative_diff(
                rolling(df_three_gauges_R_1_min,
                        MinutesPerHour * hours_to_average_for_diff),
                max_allowed_relative_diff,
                Div(min_R, Num(hours_to_average_for_diff, 1)))
        df_temp == rolling(df_three_gauges_R_1_min,
                           MinutesPerHour * hours_to_average_for_zeros)
        df_gauge_valid_from_zeros ==
            validity_from_zeros(
                df_temp, Div(min_R, Num(hours_to_average_for_zeros, 1)))
        df_valid_combo ==
            [g \in gauge_ids |-> [t \in Index(df_three_gauges_R_1_min) |->
                df_gauge_valid_from_zeros[g][t] /\ df_gauge_valid_from_diff[g][t]]]
    IN  [df_gauge_valid_from_diff |-> df_gauge_valid_from_diff,
         df_gauge_valid_from_zeros |-> df_gauge_valid_from_zeros,
         df_valid_combo |-> df_valid_combo,
         ts_R_1_min_combo |-> masked_mean(df_temp, df_valid_combo)]

\* the masks are returned with the series so that the claims can speak of them
combine_gauges(df_three_gauges_R_1_min, hours_to_average_for_diff, max_allowed_relative_diff, min_R, hours_to_average_for_zeros) ==
    LET df_gauge_valid_from_diff ==
            validity_from_relative_diff(
                rolling(df_three_gauges_R_1_min,
                        MinutesPerHour * hours_to_average_for_diff),
                max_allowed_relative_diff,
                Div(min_R, Num(hours_to_average_for_diff, 1)))
        df_gauge_valid_from_zeros ==
            validity_from_zeros(
                rolling(df_three_gauges_R_1_min,
                        MinutesPerHour * hours_to_average_for_zeros),
                Div(min_R, Num(hours_to_average_for_zeros, 1)))
        df_valid_combo ==
            [g \in gauge_ids |-> [t \in Index(df_three_gauges_R_1_min) |->
                df_gauge_valid_from_zeros[g][t] /\ df_gauge_valid_from_diff[g][t]]]
    IN  [df_gauge_valid_from_diff |-> df_gauge_valid_from_diff,
         df_gauge_valid_from_zeros |-> df_gauge_valid_from_zeros,
         df_valid_combo |-> df_valid_combo,
         ts_R_1_min_combo |-> masked_mean(df_three_gauges_R_1_min, df_valid_combo)]

\* the pair key of two distinct gauges
PairOf(a, b) == CHOOSE p \in PairKeys : {split(p)[1], split(p)[2]} = {a, b}

validity_from_corr_strict(df_corr_three_pairs, min_corr) ==
    [gauge_id \in gauge_ids |->
       [t \in DOMAIN df_corr_three_pairs[pairs[gauge_id][1]] |->
          LET df_corr_1 == df_corr_three_pairs[pairs[gauge_id][1]]
              df_corr_2 == df_corr_three_pairs[pairs[gauge_id][2]]
          IN  Gt(df_corr_1[t], min_corr) \/ Gt(df_corr_2[t], min_corr)]]

validity_from_corr(df_corr_three_pairs, min_corr) ==
    [gauge_id \in gauge_ids |->
       [t \in DOMAIN df_corr_three_pairs[pairs[gauge_id][1]] |->
          LET df_corr_1 == df_corr_three_pairs[pairs[gauge_id][1]]
              df_corr_2 == df_corr_three_pairs[pairs[gauge_id][2]]
          IN  Ge(df_corr_1[t], min_corr) \/ Ge(df_corr_2[t], min_corr)]]

gauge_corr_clamp_to_one(correls) ==
    [pair_str \in PairKeys |->
       [t \in DOMAIN correls |->
          LET c == correls[t][split(pair_str)[1]][split(pair_str)[2]]
          IN  IF Gt(c, Num(1, 1)) THEN Num(1, 1) ELSE c]]

\* correls is what df_three_gauges.rolling(window, center=True).corr() returned:
\* at each timestamp the matrix of the pairwise correlations
gauge_corr(correls) ==
    [pair_str \in PairKeys |->
       [t \in DOMAIN correls |->
          LET c == correls[t][split(pair_str)[1]][split(pair_str)[2]]
          IN  IF Gt(c, Num(1, 1)) THEN Num(0, 1) ELSE c]]

-----------------------------------------------------------------------------
(* state *)

VARIABLES
    df_three_gauges,      \* the frame handed to a detector
    call,                 \* the detector last called and its parameters
    df_valid,             \* the ValidityMask it returned
    correls,              \* the rolling correlation matrices of gauge_corr
    df_corr_three_pairs,  \* the CorrelationFrame gauge_corr returned
    df_gauges_valid,      \* plot_gauge_validity: the ValidityMask to draw
    index,                \* its index, in minutes
    pc,                   \* where plot_gauge_validity stands
    column,               \* position of gauge_id in df_gauges_valid.columns
    i,                    \* position of t_i in the index
    last_i_valid,
    current_patch_width,
    t_i_start,
    patches,              \* the rectangles added to the axes, in order
    df_three_gauges_R_1_min,  \* combine_gauges: the raw minutely rain rates
    args,                 \* the parameters it was called with
    combo                 \* its masks and the combined series it returned

det_vars == <<df_three_gauges, call, df_valid>>

corr_vars == <<correls, df_corr_three_pairs>>

plot_vars == <<df_gauges_valid, index, pc, column, i, last_i_valid,
               current_patch_width, t_i_start, patches>>

combo_vars == <<df_three_gauges_R_1_min, args, combo>>

vars == <<det_vars, corr_vars, plot_vars, combo_vars>>

\* readings of the input frames, in model units: the multiples of 1e-10 up to
\* MaxR, the offsets below 1e-10 that rounding removes, and NaN
RawVals == {k * Quantum : k \in 0..MaxR} \cup 1..(Quantum - 1)

Floats == {NaN} \cup {Num(v, 1) : v \in RawVals}

\* parameters tried
MinRs == {Num(0, 1), Num(Quantum, 1)}

MaxDiffs == {Num(-1, 10), Num(0, 1), Num(3, 10)}

MinCorrs == {Num(0, 1), Num(1, 2), Num(9, 10), Num(1, 1)}

NoCall == [op |-> "none", min_R |-> NaN, max_allowed_relative_diff |-> NaN,
           min_corr |-> NaN]

CorrIdle == correls = <<>> /\ df_corr_three_pairs = <<>>

ComboIdle == df_three_gauges_R_1_min = <<>> /\ args = <<>> /\ combo = <<>>

DetIdle == df_three_gauges = <<>> /\ call = NoCall /\ df_valid = <<>>

PlotIdle ==
    /\ df_gauges_valid = <<>>
    /\ index = <<>>
    /\ pc = "idle"
    /\ column = 0
    /\ i = 0
    /\ last_i_valid = FALSE
    /\ current_patch_width = NaN
    /\ t_i_start = "None"
    /\ patches = <<>>

-----------------------------------------------------------------------------
(* the two threshold detectors, called on any frame *)

\* the gauge after g, cyclically
NextGauge(g) == CASE g = "1" -> "2" [] g = "2" -> "3" [] g = "3" -> "1"

\* frames of two timestamps: any three readings at the first, and the same
\* readings moved one gauge on at the second
ProbeFrames ==
    { [g \in gauge_ids |-> <<row[g], row[NextGauge(g)]>>] :
        row \in [gauge_ids -> Floats] }

InitDet ==
    /\ df_three_gauges \in ProbeFrames
    /\ call = NoCall
    /\ df_valid = <<>>
    /\ CorrIdle
    /\ PlotIdle
    /\ ComboIdle

CallValidityFromZeros ==
    \E min_R \in MinRs :
        /\ call.op = "none"
        /\ df_valid' = validity_from_zeros(df_three_gauges, min_R)
        /\ call' = [NoCall EXCEPT !.op = "zeros", !.min_R = min_R]
        /\ UNCHANGED <<df_three_gauges, corr_vars, plot_vars, combo_vars>>

CallValidityFromRelativeDiff ==
    \E min_R \in MinRs, max_allowed_relative_diff \in MaxDiffs :
        /\ call.op = "none"
        /\ df_valid' = validity_from_relative_diff(
                           df_three_gauges, max_allowed_relative_diff, min_R)
        /\ call' = [NoCall EXCEPT !.op = "reldiff", !.min_R = min_R,
                      !.max_allowed_relative_diff = max_allowed_relative_diff]
        /\ UNCHANGED <<df_three_gauges, corr_vars, plot_vars, combo_vars>>

NextDet == CallValidityFromZeros \/ CallValidityFromRelativeDiff

SpecDet == InitDet /\ [][NextDet]_vars

-----------------------------------------------------------------------------
(* claims about the two threshold detectors *)

Zero == Num(0, 1)

Others(g) == gauge_ids \ {g}

\* the reading of gauge g at timestamp t, as passed and as rounded
Val(g, t) == df_three_gauges[g][t]

Rounded(g, t) == Round10(Val(g, t))

\* by how much gauge o reads higher than gauge g, relative to their mean:
\* undefined when either reading is below min_R
HigherBy(o, g, t) ==
    IF Lt(Val(o, t), call.min_R) \/ Lt(Val(g, t), call.min_R) THEN NaN
    ELSE Div(Sub(Rounded(o, t), Rounded(g, t)),
             Div(Add(Val(o, t), Val(g, t)), Num(2, 1)))

TooLow(g, o, t) == Gt(HigherBy(o, g, t), call.max_allowed_relative_diff)

AnyAboveMinR(t) == \E c \in gauge_ids : Gt(Val(c, t), call.min_R)

\* C1: validity_from_zeros marks gauge g invalid at t exactly when its rounded
\* reading is 0 and a sibling's rounded reading is above min_R; a lone zero
\* next to a sibling above min_R is invalid, and three zeros stay valid.
C1_ZerosContract ==
    call.op = "zeros" =>
        \A t \in Index(df_three_gauges) :
            /\ \A g \in gauge_ids :
                 (df_valid[g][t] = FALSE) <=>
                    /\ Eq(Rounded(g, t), Zero)
                    /\ \E o \in Others(g) : Gt(Rounded(o, t), call.min_R)
            /\ \A g \in gauge_ids :
                 ( /\ Eq(Val(g, t), Zero)
                   /\ \A o \in Others(g) : ~Eq(Val(o, t), Zero)
                   /\ \E o \in Others(g) : Gt(Rounded(o, t), call.min_R) )
                 => ~df_valid[g][t]
            /\ (\A g \in gauge_ids : Eq(Val(g, t), Zero))
                 => \A g \in gauge_ids : df_valid[g][t]

\* a reading that only rounding turns into 0 is invalidated by a sibling
C1_Witness ==
    /\ call.op = "zeros"
    /\ \E t \in Index(df_three_gauges), g \in gauge_ids :
         /\ ~Eq(Val(g, t), Zero)
         /\ Eq(Rounded(g, t), Zero)
         /\ ~df_valid[g][t]
         /\ \E o \in Others(g) : df_valid[o][t]

\* C2: validity_from_relative_diff marks gauge g invalid at t exactly when a
\* gauge is above min_R and a peer reads higher than g by more than
\* max_allowed_relative_diff of the pair's mean (an undefined relative
\* difference never counts); readings (10, 10, 1) with threshold 0.3
\* invalidate only the gauge reading 1.
C2_RelativeDiffContract ==
    call.op = "reldiff" =>
        \A t \in Index(df_three_gauges) :
            /\ \A g \in gauge_ids :
                 (df_valid[g][t] = FALSE) <=>
                    AnyAboveMinR(t) /\ \E o \in Others(g) : TooLow(g, o, t)
            /\ \A g \in gauge_ids :
                 ( /\ call.max_allowed_relative_diff = Num(3, 10)
                   /\ Val(g, t) = Num(Quantum, 1)
                   /\ \A o \in Others(g) : Val(o, t) = Num(10 * Quantum, 1) )
                 => /\ ~df_valid[g][t]
                    /\ \A o \in Others(g) : df_valid[o][t]

\* the (10, 10, 1) case, and a gauge kept valid because its pair is masked
C2_Witness ==
    /\ call.op = "reldiff"
    /\ call.max_allowed_relative_diff = Num(3, 10)
    /\ Val("1", 1) = Num(10 * Quantum, 1)
    /\ Val("2", 1) = Num(10 * Quantum, 1)
    /\ Val("3", 1) = Num(Quantum, 1)
    /\ df_valid["3"][1] = FALSE
    /\ df_valid["1"][1] /\ df_valid["2"][1]
    /\ df_valid["2"][2] = FALSE

\* C3 as stated: validity_from_relative_diff invalidates a gauge only when it
\* reads too low against both of its peers.
C3_OnlyWhenLowerThanBoth ==
    call.op = "reldiff" =>
        \A t \in Index(df_three_gauges), g \in gauge_ids :
            ~df_valid[g][t] => \A o \in Others(g) : TooLow(g, o, t)

\* C3 as amended: validity_from_relative_diff invalidates a gauge only when it
\* reads too low against at least one peer, and one peer is enough: where a
\* gauge is above min_R, a gauge that reads too low against exactly one of its
\* peers is invalid.
C3_LowerThanOnePeer ==
    call.op = "reldiff" =>
        \A t \in Index(df_three_gauges), g \in gauge_ids :
            /\ ~df_valid[g][t] => \E o \in Others(g) : TooLow(g, o, t)
            /\ ( /\ AnyAboveMinR(t)
                  /\ \E o, p \in Others(g) : TooLow(g, o, t) /\ ~TooLow(g, p, t) )
                 => ~df_valid[g][t]

\* three mutually divergent readings: the middle gauge is invalid as well
C3_Witness ==
    /\ call.op = "reldiff"
    /\ call.max_allowed_relative_diff = Num(3, 10)
    /\ \E t \in Index(df_three_gauges), lo, mid, hi \in gauge_ids :
         /\ TooLow(lo, mid, t) /\ TooLow(mid, hi, t)
         /\ ~TooLow(mid, lo, t)
         /\ ~df_valid[mid][t] /\ ~df_valid[lo][t] /\ df_valid[hi][t]

NonNegative(x) == Ge(x, Zero)

\* C10: with min_R >= 0 and max_allowed_relative_diff >= 0, neither detector
\* invalidates a gauge that reads at least as high as both others, so where
\* all three readings are defined each mask keeps a gauge valid.
C10_HighestStaysValid ==
    ( \/ call.op = "zeros" /\ NonNegative(call.min_R)
      \/ /\ call.op = "reldiff"
         /\ NonNegative(call.min_R)
         /\ NonNegative(call.max_allowed_relative_diff) )
    => \A t \in Index(df_three_gauges) :
          /\ \A g \in gauge_ids :
               (\A o \in Others(g) : Ge(Val(g, t), Val(o, t))) => df_valid[g][t]
          /\ (\A g \in gauge_ids : ~IsNaN(Val(g, t)))
               => \E g \in gauge_ids : df_valid[g][t]

\* the relative-difference detector invalidates two gauges and keeps the highest
C10_Witness ==
    /\ call.op = "reldiff"
    /\ NonNegative(call.max_allowed_relative_diff)
    /\ \E t \in Index(df_three_gauges), g \in gauge_ids :
         /\ \A o \in Others(g) : Gt(Val(g, t), Val(o, t)) /\ ~df_valid[o][t]
         /\ df_valid[g][t]

-----------------------------------------------------------------------------
(* the correlation detector: gauge_corr, then validity_from_corr *)

\* correlations the rolling computation can return: NaN, the (CorrSteps)ths
\* between -1 and 1, and 1 overshot by floating-point rounding
CorrFloats ==
    {NaN} \cup {Num(k, CorrSteps) : k \in (-CorrSteps)..CorrSteps}
          \cup {Num(1000001, 1000000)}

\* the symmetric matrix holding correlation c[p] for each pair p
CorrMatrix(c) ==
    [a \in gauge_ids |-> [b \in gauge_ids |->
        IF a = b THEN Num(1, 1) ELSE c[PairOf(a, b)]]]

NextPair(p) == CASE p = "1-2" -> "1-3" [] p = "1-3" -> "2-3" [] p = "2-3" -> "1-2"

\* two timestamps: any three correlations at the first, and the same
\* correlations moved one pair on at the second
ProbeCorrels ==
    { <<CorrMatrix(c), CorrMatrix([p \in PairKeys |-> c[NextPair(p)]])>> :
        c \in [PairKeys -> CorrFloats] }

InitCorr ==
    /\ correls \in ProbeCorrels
    /\ df_corr_three_pairs = <<>>
    /\ DetIdle
    /\ PlotIdle
    /\ ComboIdle

CallGaugeCorr ==
    /\ df_corr_three_pairs = <<>>
    /\ df_corr_three_pairs' = gauge_corr(correls)
    /\ UNCHANGED <<det_vars, correls, plot_vars, combo_vars>>

CallValidityFromCorr ==
    \E min_corr \in MinCorrs :
        /\ df_corr_three_pairs # <<>>
        /\ call.op = "none"
        /\ df_valid' = validity_from_corr(df_corr_three_pairs, min_corr)
        /\ call' = [NoCall EXCEPT !.op = "corr", !.min_corr = min_corr]
        /\ UNCHANGED <<df_three_gauges, corr_vars, plot_vars, combo_vars>>

NextCorr == CallGaugeCorr \/ CallValidityFromCorr

SpecCorr == InitCorr /\ [][NextCorr]_vars

\* the correlation of gauges a and b: as computed, and as gauge_corr returned it
Computed(a, b, t) == correls[t][a][b]

Returned(a, b, t) == df_corr_three_pairs[PairOf(a, b)][t]

One == Num(1, 1)

\* C6: validity_from_corr marks gauge g valid at t exactly when its correlation
\* with at least one of the two other gauges is defined and >= min_corr.
C6_CorrContract ==
    call.op = "corr" =>
        \A t \in DOMAIN correls, g \in gauge_ids :
            df_valid[g][t] <=>
                \E o \in Others(g) :
                    /\ ~IsNaN(Returned(g, o, t))
                    /\ Ge(Returned(g, o, t), call.min_corr)

\* a gauge valid through a correlation equal to min_corr, next to a gauge that
\* is invalid with one correlation undefined and the other below min_corr
C6_Witness ==
    /\ call.op = "corr"
    /\ \E t \in DOMAIN correls, g, h \in gauge_ids :
         /\ df_valid[g][t]
         /\ \A o \in Others(g) : ~Gt(Returned(g, o, t), call.min_corr)
         /\ ~df_valid[h][t]
         /\ \E o \in Others(h) : IsNaN(Returned(h, o, t))
         /\ \E o \in Others(h) : Lt(Returned(h, o, t), call.min_corr)

\* C7: gauge_corr returns 0 for every correlation computed above 1 and every
\* other correlation unchanged, so nothing returned exceeds 1, and with
\* min_corr > 0 a correlation computed above 1 makes no gauge valid.
C7_CorrClamp ==
    df_corr_three_pairs # <<>> =>
        \A t \in DOMAIN correls, p \in PairKeys :
            LET a == split(p)[1]
                b == split(p)[2]
            IN  /\ Gt(Computed(a, b, t), One) => Returned(a, b, t) = Zero
                /\ ~Gt(Computed(a, b, t), One)
                     => Returned(a, b, t) = Computed(a, b, t)
                /\ ~Gt(Returned(a, b, t), One)
                /\ (call.op = "corr" /\ Gt(call.min_corr, Zero) /\ df_valid[a][t])
                     => \E o \in Others(a) :
                           /\ ~Gt(Computed(a, o, t), One)
                           /\ Ge(Computed(a, o, t), call.min_corr)

\* a gauge whose one correlation overshoots 1 and whose other is below a
\* positive min_corr is invalid
C7_Witness ==
    /\ call.op = "corr"
    /\ Gt(call.min_corr, Zero)
    /\ \E t \in DOMAIN correls, g \in gauge_ids :
         /\ \E o \in Others(g) :
              Gt(Computed(g, o, t), One) /\ Returned(g, o, t) = Zero
         /\ ~df_valid[g][t]

-----------------------------------------------------------------------------
(* plot_gauge_validity: one rectangle per period in which a gauge is valid *)

columns == <<"1", "2", "3">>

offset_dict == [g \in gauge_ids |-> CASE g = "1" -> 2 [] g = "2" -> 1 [] g = "3" -> 0]

\* the colours are the entries 5, 6 and 7 of the husl palette
color_dict == [g \in gauge_ids |-> CASE g = "1" -> 5 [] g = "2" -> 6 [] g = "3" -> 7]

\* matplotlib.dates.date2num: a timestamp (in minutes) as a number of days
date2num(t) == Num(t, 1440)

patch_width_increment == Sub(date2num(index[2]), date2num(index[1]))

gauge_id == columns[column]

_add_patch_for_gauge(x, width, g) ==
    Append(patches, [x |-> x, offset |-> offset_dict[g], width |-> width,
                     height |-> 1, facecolor |-> color_dict[g]])

\* uniformly spaced indexes of 1 to MaskLen timestamps
UniformIndexes ==
    { [k \in 1..n |-> t0 + (k - 1) * step] :
        n \in 1..MaskLen, t0 \in {600}, step \in {1, 10} }

InitPlot ==
    /\ index \in UniformIndexes
    /\ df_gauges_valid \in [gauge_ids -> [DOMAIN index -> BOOLEAN]]
    /\ pc = "start"
    /\ column = 1
    /\ i = 0
    /\ last_i_valid = FALSE
    /\ current_patch_width = NaN
    /\ t_i_start = "None"
    /\ patches = <<>>
    /\ DetIdle
    /\ CorrIdle
    /\ ComboIdle

\* ix_datenum[1] - ix_datenum[0]: an IndexError on an index of one timestamp
PlotBegin ==
    /\ pc = "start"
    /\ pc' = IF Len(index) < 2 THEN "IndexError" ELSE "column"
    /\ UNCHANGED <<det_vars, corr_vars, combo_vars, df_gauges_valid, index, column, i,
                   last_i_valid, current_patch_width, t_i_start, patches>>

\* for gauge_id in df_gauges_valid.columns
ColumnBegin ==
    /\ pc = "column"
    /\ IF column > Len(columns)
       THEN /\ pc' = "done"
            /\ UNCHANGED <<i, last_i_valid, current_patch_width, t_i_start>>
       ELSE /\ pc' = "scan"
            /\ i' = 1
            /\ last_i_valid' = FALSE
            /\ current_patch_width' = Num(0, 1)
            /\ t_i_start' = "None"
    /\ UNCHANGED <<det_vars, corr_vars, combo_vars, df_gauges_valid, index, column, patches>>

ScanValid ==
    /\ pc = "scan"
    /\ i <= Len(index)
    /\ df_gauges_valid[gauge_id][i]
    /\ IF ~last_i_valid
       THEN /\ t_i_start' = index[i]
            /\ current_patch_width' = patch_width_increment
       ELSE /\ current_patch_width' =
                   Add(current_patch_width, patch_width_increment)
            /\ UNCHANGED t_i_start
    /\ last_i_valid' = TRUE
    /\ i' = i + 1
    /\ UNCHANGED <<det_vars, corr_vars, combo_vars, df_gauges_valid, index, pc, column, patches>>

ScanInvalid ==
    /\ pc = "scan"
    /\ i <= Len(index)
    /\ ~df_gauges_valid[gauge_id][i]
    /\ IF last_i_valid
       THEN /\ patches' = _add_patch_for_gauge(
                              date2num(t_i_start), current_patch_width, gauge_id)
            /\ current_patch_width' = Num(0, 1)
       ELSE UNCHANGED <<patches, current_patch_width>>
    /\ last_i_valid' = FALSE
    /\ i' = i + 1
    /\ UNCHANGED <<det_vars, corr_vars, combo_vars, df_gauges_valid, index, pc, column, t_i_start>>

EndOfSeries_without_last_patch ==
    /\ pc = "scan"
    /\ i > Len(index)
    /\ UNCHANGED <<patches, current_patch_width, last_i_valid>>
    /\ column' = column + 1
    /\ pc' = "column"
    /\ UNCHANGED <<det_vars, corr_vars, combo_vars, df_gauges_valid, index, i, t_i_start>>

EndOfSeries ==
    /\ pc = "scan"
    /\ i > Len(index)
    /\ IF last_i_valid
       THEN /\ patches' = _add_patch_for_gauge(
                              date2num(t_i_start), current_patch_width, gauge_id)
            /\ current_patch_width' = Num(0, 1)
            /\ last_i_valid' = FALSE
       ELSE UNCHANGED <<patches, current_patch_width, last_i_valid>>
    /\ column' = column + 1
    /\ pc' = "column"
    /\ UNCHANGED <<det_vars, corr_vars, combo_vars, df_gauges_valid, index, i, t_i_start>>

NextPlot == PlotBegin \/ ColumnBegin \/ ScanValid \/ ScanInvalid \/ EndOfSeries

SpecPlot == InitPlot /\ [][NextPlot]_vars

\* the maximal runs of consecutive valid entries of gauge g, as <<first, last>>
Runs(g) ==
    { r \in (DOMAIN index) \X (DOMAIN index) :
        /\ r[1] <= r[2]
        /\ \A k \in r[1]..r[2] : df_gauges_valid[g][k]
        /\ r[1] = 1 \/ ~df_gauges_valid[g][r[1] - 1]
        /\ r[2] = Len(index) \/ ~df_gauges_valid[g][r[2] + 1] }

\* the row of gauge g: gauge 1 on top
Row(g) == CASE g = "1" -> 2 [] g = "2" -> 1 [] g = "3" -> 0

IsRectangleOf(patch, g, r) ==
    /\ patch.offset = Row(g)
    /\ Eq(patch.x, date2num(index[r[1]]))
    /\ Eq(patch.width,
          Mul(Num(r[2] - r[1] + 1, 1), Sub(date2num(index[2]), date2num(index[1]))))

\* C9: when plot_gauge_validity is done, the rectangles are exactly one per
\* maximal run of valid entries of each gauge, starting at the run's first
\* timestamp, as wide as the run is long, on the gauge's row; so no rectangle
\* covers a timestamp at which its gauge is invalid.
C9_OneRectanglePerRun ==
    pc = "done" =>
        /\ \A g \in gauge_ids : \A r \in Runs(g) :
             Cardinality({k \in DOMAIN patches : IsRectangleOf(patches[k], g, r)}) = 1
        /\ \A k \in DOMAIN patches :
             \E g \in gauge_ids : \E r \in Runs(g) : IsRectangleOf(patches[k], g, r)
        /\ \A k \in DOMAIN patches, g \in gauge_ids, t \in DOMAIN index :
             ( /\ patches[k].offset = Row(g)
               /\ Ge(date2num(index[t]), patches[k].x)
               /\ Lt(date2num(index[t]), Add(patches[k].x, patches[k].width)) )
             => df_gauges_valid[g][t]

\* a gauge with two runs, a gauge with one run of several entries that reaches
\* the end of the series, and a gauge that is never valid
C9_Witness ==
    /\ pc = "done"
    /\ index[2] - index[1] = 10
    /\ Cardinality(Runs("1")) = 2
    /\ \E r \in Runs("2") : r[2] = Len(index) /\ r[1] < r[2]
    /\ Runs("3") = {}
    /\ Len(patches) = 3

-----------------------------------------------------------------------------
(* combine_gauges *)

High == Num(20 * Quantum, 1)

Burst == Num(22 * Quantum, 1)

Low == Num(Quantum, 1)

\* the first and the last half hour, and the minute in the middle
Outer(k) == k <= 30 \/ k > SeriesLen - 30

Middle == SeriesLen \div 2 + 1

\* the course of one gauge over the SeriesLen minutes
Profile(kind) ==
    [k \in 1..SeriesLen |->
       CASE kind = "dry"     -> Zero
         [] kind = "steady"  -> High
         [] kind = "stuck"   -> IF Outer(k) THEN High ELSE Zero
         [] kind = "drizzle" -> IF Outer(k) THEN Zero ELSE Low
         [] kind = "dropout" -> IF k = Middle THEN NaN ELSE High
         [] kind = "burst"   -> IF k = Middle THEN Burst ELSE High]

Kinds == {"dry", "steady", "stuck", "drizzle", "dropout", "burst"}

RawFrames == { [g \in gauge_ids |-> Profile(kind[g])] : kind \in [gauge_ids -> Kinds] }

\* the parameters tried: the averaging windows in hours, the threshold, the floor
ComboArgs ==
    { [hours_to_average_for_diff |-> hd, max_allowed_relative_diff |-> Num(3, 10),
       min_R |-> Num(Quantum, 2), hours_to_average_for_zeros |-> hz] :
        hd \in 1..2, hz \in 1..2 } \ {[hours_to_average_for_diff |-> 2,
       max_allowed_relative_diff |-> Num(3, 10), min_R |-> Num(Quantum, 2),
       hours_to_average_for_zeros |-> 2]}

InitCombo ==
    /\ df_three_gauges_R_1_min \in RawFrames
    /\ args = <<>>
    /\ combo = <<>>
    /\ DetIdle
    /\ CorrIdle
    /\ PlotIdle

CallCombineGauges ==
    \E a \in ComboArgs :
        /\ args = <<>>
        /\ args' = a
        /\ combo' = combine_gauges(df_three_gauges_R_1_min,
                                   a.hours_to_average_for_diff,
                                   a.max_allowed_relative_diff,
                                   a.min_R,
                                   a.hours_to_average_for_zeros)
        /\ UNCHANGED <<df_three_gauges_R_1_min, det_vars, corr_vars, plot_vars>>

NextCombo == CallCombineGauges

SpecCombo == InitCombo /\ [][NextCombo]_vars

\* the raw reading of gauge g at minute t
Raw(g, t) == df_three_gauges_R_1_min[g][t]

\* the mean of the raw readings at t of the gauges in S, NaN for no gauge
RECURSIVE RawSum(_, _)
RawSum(S, t) ==
    IF S = {} THEN Zero
    ELSE LET g == CHOOSE h \in S : TRUE
         IN  Add(Raw(g, t), RawSum(S \ {g}, t))

RawMean(S, t) == Div(RawSum(S, t), Num(Cardinality(S), 1))

SameFloat(x, y) == (IsNaN(x) /\ IsNaN(y)) \/ Eq(x, y)

\* the smoothed frames the two detectors are given, and their floors
ShortRoll == rolling(df_three_gauges_R_1_min,
                     MinutesPerHour * args.hours_to_average_for_zeros)

LongRoll == rolling(df_three_gauges_R_1_min,
                    MinutesPerHour * args.hours_to_average_for_diff)

ZeroValidity ==
    validity_from_zeros(
        ShortRoll, Div(args.min_R, Num(args.hours_to_average_for_zeros, 1)))

DiffValidity ==
    validity_from_relative_diff(
        LongRoll, args.max_allowed_relative_diff,
        Div(args.min_R, Num(args.hours_to_average_for_diff, 1)))

Minutes == 1..SeriesLen

\* C4: the final validity of combine_gauges is the zero-validity of the
\* short-window average AND the relative-difference validity of the
\* long-window average, and the raw reading of a gauge that either detector
\* marks invalid is not part of the combined value.
C4_FusionIsConjunctive ==
    combo # <<>> =>
        LET Z == ZeroValidity
            D == DiffValidity
        IN  \A t \in Minutes :
              /\ \A g \in gauge_ids :
                   combo.df_valid_combo[g][t] = (Z[g][t] /\ D[g][t])
              /\ SameFloat(combo.ts_R_1_min_combo[t],
                           RawMean({g \in gauge_ids :
                                      Z[g][t] /\ D[g][t] /\ ~IsNaN(Raw(g, t))}, t))

\* with different windows, one gauge fails only the zero check and another
\* only the relative-difference check; no gauge is left and the value is NaN
C4_Witness ==
    /\ combo # <<>>
    /\ args.hours_to_average_for_diff # args.hours_to_average_for_zeros
    /\ \E t \in Minutes, g, h \in gauge_ids :
         /\ ~combo.df_gauge_valid_from_zeros[g][t]
         /\ combo.df_gauge_valid_from_diff[g][t]
         /\ combo.df_gauge_valid_from_zeros[h][t]
         /\ ~combo.df_gauge_valid_from_diff[h][t]
         /\ ~combo.df_valid_combo[g][t] /\ ~combo.df_valid_combo[h][t]
         /\ \A k \in gauge_ids : ~combo.df_valid_combo[k][t] /\ ~IsNaN(Raw(k, t))
         /\ IsNaN(combo.ts_R_1_min_combo[t])

FinalValid(t) == {g \in gauge_ids : combo.df_valid_combo[g][t]}

\* C5 as stated: the combined value is the mean of the raw readings of exactly
\* the final-valid gauges (a NaN among them making it NaN), NaN for none.
C5_MeanOfValidGauges ==
    combo # <<>> =>
        \A t \in Minutes :
            SameFloat(combo.ts_R_1_min_combo[t], RawMean(FinalValid(t), t))

\* C5 as amended: the combined value is the mean of the raw readings that are
\* not NaN of the final-valid gauges, and NaN when there is no such reading;
\* raw readings (2.0, 2.2, NaN) with gauges 1 and 2 valid give 2.1.
C5_MeanOfDefinedValidReadings ==
    combo # <<>> =>
        \A t \in Minutes :
            LET S == {g \in FinalValid(t) : ~IsNaN(Raw(g, t))}
            IN  /\ S = {} => IsNaN(combo.ts_R_1_min_combo[t])
                /\ S # {} => Eq(combo.ts_R_1_min_combo[t], RawMean(S, t))
                /\ ( /\ Raw("1", t) = High /\ Raw("2", t) = Burst
                     /\ IsNaN(Raw("3", t))
                     /\ {"1", "2"} \subseteq FinalValid(t) )
                   => Eq(combo.ts_R_1_min_combo[t], Num(21 * Quantum, 1))

\* the (2.0, 2.2, NaN) case: gauge 3 is final-valid and skipped, and the
\* smoothed reading of gauge 2 is not its raw reading
C5_Witness ==
    /\ combo # <<>>
    /\ \E t \in Minutes :
         /\ Raw("1", t) = High /\ Raw("2", t) = Burst /\ IsNaN(Raw("3", t))
         /\ FinalValid(t) = gauge_ids
         /\ Eq(combo.ts_R_1_min_combo[t], Num(21 * Quantum, 1))
         /\ Lt(ShortRoll["2"][t], Raw("2", t))

\* C8 as stated: a gauge whose smoothed reading is NaN at t is invalid at t in
\* the mask of the detector that was given it, and in the fused mask.
C8_NaNIsInvalid ==
    combo # <<>> =>
        \A t \in Minutes, g \in gauge_ids :
            /\ IsNaN(ShortRoll[g][t]) => ~combo.df_gauge_valid_from_zeros[g][t]
            /\ IsNaN(LongRoll[g][t]) => ~combo.df_gauge_valid_from_diff[g][t]
            /\ (IsNaN(ShortRoll[g][t]) \/ IsNaN(LongRoll[g][t]))
                 => ~combo.df_valid_combo[g][t]

\* C8 as amended: a gauge whose smoothed reading is NaN at t is valid at t in
\* the mask of the detector that was given it; a gauge whose raw reading is NaN
\* at t is valid at t in both masks and in the fused mask, and its reading is
\* left out of the combined value by the mean alone.
C8_NaNIsValid ==
    combo # <<>> =>
        LET short == ShortRoll
            long == LongRoll
        IN  \A t \in Minutes, g \in gauge_ids :
              /\ IsNaN(short[g][t]) => combo.df_gauge_valid_from_zeros[g][t]
              /\ IsNaN(long[g][t]) => combo.df_gauge_valid_from_diff[g][t]
              /\ IsNaN(Raw(g, t)) =>
                   /\ IsNaN(short[g][t]) /\ IsNaN(long[g][t])
                   /\ combo.df_valid_combo[g][t]
                   /\ SameFloat(combo.ts_R_1_min_combo[t],
                                RawMean({h \in FinalValid(t) \ {g} :
                                           ~IsNaN(Raw(h, t))}, t))

\* a gauge with a NaN reading is final-valid next to an invalid gauge, and the
\* combined value is the reading of the third gauge
C8_Witness ==
    /\ combo # <<>>
    /\ \E t \in Minutes, g, h, k \in gauge_ids :
         /\ IsNaN(Raw(g, t))
         /\ combo.df_valid_combo[g][t]
         /\ ~combo.df_valid_combo[h][t]
         /\ combo.df_valid_combo[k][t]
         /\ Eq(combo.ts_R_1_min_combo[t], Raw(k, t))

====
